---- MODULE Spec2Model ----
(***************************************************************************)
(* Breeze portal, server side: the in-memory device registry               *)
(* (lib/deviceStore.ts, class DeviceStore) and the handler of inbound      *)
(* MQTT messages (lib/mqtt.ts, MQTTManager.handleMessage).                 *)
(*                                                                         *)
(* Representation.                                                         *)
(*  - A JavaScript object is a function from its own property names to     *)
(*    values; a property the object does not have is outside the DOMAIN.   *)
(*  - The Map `devices` is the sequence of its entries in insertion order. *)
(*  - A topic is the sequence of its lexical tokens: "/" and the maximal   *)
(*    runs of other characters between two "/".                            *)
(*  - A message buffer is either the text of a well-formed JSON document,  *)
(*    held as the value JSON.parse returns for it, or any other text, held *)
(*    as its characters.                                                   *)
(*  - new Date() reads the clock `now`.                                    *)
(***************************************************************************)
EXTENDS Integers, Sequences, FiniteSets, TLC

VARIABLES devices, now, last, manager, sim, toDevice, toServer, listed,
          emulator

vars ==
  <<devices, now, last, manager, sim, toDevice, toServer, listed, emulator>>

\* the connection, the simulator and the messages in flight
busVars == <<manager, sim, toDevice, toServer>>

\* the list getAllDevices handed out, and the emulator of the shell script
sideVars == <<listed, emulator>>

----------------------------------------------------------------------------
(* Bounds *)

\* The clock runs from 0 to MaxClock.
MaxClock == 1

\* The bus holds at most MaxInFlight messages.
MaxInFlight == 1

\* A simulator starts its status timers at most MaxTimers times.
MaxTimers == 2

\* The status timers stop when uptime has reached MaxUptime.
MaxUptime == 30

----------------------------------------------------------------------------
(* JavaScript values carried by a decoded payload *)

JUndef == [t |-> "undefined"]
JNull == [t |-> "null"]
JNum(n) == [t |-> "number", n |-> n]
JStr(s) == [t |-> "string", s |-> s]
JBool(b) == [t |-> "boolean", b |-> b]
JObj(o) == [t |-> "object", o |-> o]
\* a string held by its characters (the text of a payload that is not JSON)
JText(c) == [t |-> "text", c |-> c]

\* ToBoolean, as `||` and `if` apply it
Truthy(v) ==
  CASE v.t = "undefined" -> FALSE
    [] v.t = "null" -> FALSE
    [] v.t = "number" -> v.n # 0
    [] v.t = "string" -> v.s # ""
    [] v.t = "boolean" -> v.b
    [] v.t = "text" -> Len(v.c) > 0
    [] OTHER -> TRUE

\* a || b
Or(a, b) == IF Truthy(a) THEN a ELSE b

\* data.key : reading a property of null throws, of a primitive gives undefined
GetProp(data, key) ==
  CASE data.t \in {"null", "undefined"} -> [thrown |-> TRUE, value |-> JUndef]
    [] data.t = "object" ->
         [thrown |-> FALSE,
          value |-> IF key \in DOMAIN data.o THEN data.o[key] ELSE JUndef]
    [] OTHER -> [thrown |-> FALSE, value |-> JUndef]

\* data.key = v : in strict code, assigning a property of null or of a
\* primitive throws
SetProp(data, key, v) ==
  IF data.t = "object"
  THEN [thrown |-> FALSE,
        value |-> JObj([k \in DOMAIN data.o \cup {key} |->
                          IF k = key THEN v ELSE data.o[k]])]
  ELSE [thrown |-> TRUE, value |-> data]

----------------------------------------------------------------------------
(* Object spread and the Map *)

\* {...a, ...b}
Spread(a, b) ==
  [k \in DOMAIN a \cup DOMAIN b |-> IF k \in DOMAIN b THEN b[k] ELSE a[k]]

MapKeys(m) == {m[i].key : i \in 1..Len(m)}

MapHas(m, k) == k \in MapKeys(m)

\* Map.prototype.get, for a key the map has
MapGet(m, k) == m[CHOOSE i \in 1..Len(m) : m[i].key = k].value

\* Map.prototype.set: an existing key keeps its place, a new key goes last
MapSet(m, k, v) ==
  IF MapHas(m, k)
  THEN [i \in 1..Len(m) |-> IF m[i].key = k THEN [key |-> k, value |-> v] ELSE m[i]]
  ELSE Append(m, [key |-> k, value |-> v])

\* Map.prototype.delete
MapDelete(m, k) == SelectSeq(m, LAMBDA e : e.key # k)

----------------------------------------------------------------------------
(* DeviceStore *)

\* the two records the constructor adds, with lastSeen = new Date()
ExampleDevices(t) ==
  << [id |-> "esp32-001", name |-> "Living Room Light", type |-> "ESP32",
      status |-> "offline", state |-> "off", lastSeen |-> t,
      macAddress |-> "24:6F:28:12:34:56", firmwareVersion |-> "1.0.0"],
     [id |-> "esp8266-001", name |-> "Kitchen Fan", type |-> "ESP8266",
      status |-> "offline", state |-> "off", lastSeen |-> t,
      macAddress |-> "18:FE:34:98:76:54", firmwareVersion |-> "1.0.0"] >>

\* variant: the record is stored under its name
addDeviceByName(devs, device) == MapSet(devs, device.name, device)

\* addDevice(device)
addDevice(devs, device) == MapSet(devs, device.id, device)

\* variant: a field the update omits is given a default (status offline)
MergedDeviceDefaulting(device, update, t) ==
  Spread(Spread(Spread(device, [status |-> "offline"]), update), [lastSeen |-> t])

\* variant: a numeric field is added to the stored one instead of replacing it
MergedDeviceAccumulating(device, update, t) ==
  LET merged == Spread(Spread(device, update), [lastSeen |-> t])
  IN IF "uptime" \in DOMAIN device /\ "uptime" \in DOMAIN update
     THEN [merged EXCEPT !.uptime = device.uptime + update.uptime]
     ELSE merged

\* variant: a field the record has keeps its value, the update fills in
\* the fields the record lacks
MergedDeviceKeepingOld(device, update, t) ==
  Spread(Spread(update, device), [lastSeen |-> t])

\* the object literal updateDevice builds
MergedDevice(device, update, t) ==
  Spread(Spread(device, update), [lastSeen |-> t])

\* variant: an unknown id gets a record made of the update
updateDeviceUpserting(devs, id, update, t) ==
  LET updatedDevice ==
        IF MapHas(devs, id)
        THEN MergedDevice(MapGet(devs, id), update, t)
        ELSE Spread(Spread([id |-> id, status |-> "online", state |-> "off"],
                           update), [lastSeen |-> t])
  IN [devices |-> MapSet(devs, id, updatedDevice),
      result |-> <<updatedDevice>>]

\* variant: a record that ends up offline is dropped from the map
updateDeviceDroppingOffline(devs, id, update, t) ==
  IF ~MapHas(devs, id)
  THEN [devices |-> devs, result |-> << >>]
  ELSE LET updatedDevice == MergedDevice(MapGet(devs, id), update, t)
       IN [devices |-> IF "status" \in DOMAIN update /\ update.status = "offline"
                       THEN MapDelete(devs, id)
                       ELSE MapSet(devs, id, updatedDevice),
           result |-> <<updatedDevice>>]

\* updateDevice(id, update): the map afterwards and the value returned
\* (<<>> for null, <<record>> for a record)
updateDevice(devs, id, update, t) ==
  IF ~MapHas(devs, id)
  THEN [devices |-> devs, result |-> << >>]
  ELSE LET updatedDevice == MergedDevice(MapGet(devs, id), update, t)
       IN [devices |-> MapSet(devs, id, updatedDevice),
           result |-> <<updatedDevice>>]

\* getDevice(id): << >> for undefined, <<record>> for a record
getDevice(devs, id) == IF MapHas(devs, id) THEN <<MapGet(devs, id)>> ELSE << >>

\* variant: the list handed out is the view of the map, not a copy
getAllDevicesLive(devs) ==
  [list |-> [i \in 1..Len(devs) |-> devs[i].value], live |-> TRUE]

\* getAllDevices(): Array.from(this.devices.values()), a new array of the
\* records in the order of the map; live tells whether the array handed
\* out goes on showing the map
getAllDevices(devs) ==
  [list |-> [i \in 1..Len(devs) |-> devs[i].value], live |-> FALSE]

\* what a caller holding the value getAllDevices returned sees in it
Seen(returned, devs) ==
  IF returned.live THEN [i \in 1..Len(devs) |-> devs[i].value]
  ELSE returned.list

\* removeDevice(id)
removeDevice(devs, id) == MapDelete(devs, id)

\* variant: the state asked for is always on
NewStateOn(device) == "on"

\* the state toggleDeviceState asks for
NewState(device) == IF device.state = "on" THEN "off" ELSE "on"

\* toggleDeviceState(id)
toggleDeviceState(devs, id, t) ==
  IF ~MapHas(devs, id)
  THEN [devices |-> devs, result |-> << >>]
  ELSE updateDevice(devs, id, [state |-> NewState(MapGet(devs, id))], t)

\* the methods class DeviceStore defines
DeviceStoreMethods ==
  {"addDevice", "getDevice", "getAllDevices", "updateDevice", "removeDevice",
   "toggleDeviceState"}

----------------------------------------------------------------------------
(* MQTTManager.handleMessage *)

\* topic.split('/') on the tokens of a topic
RECURSIVE SplitFrom(_, _, _, _)
SplitFrom(topic, i, cur, out) ==
  IF i > Len(topic) THEN Append(out, cur)
  ELSE IF topic[i] = "/" THEN SplitFrom(topic, i + 1, "", Append(out, cur))
  ELSE SplitFrom(topic, i + 1, topic[i], out)

Split(topic) == SplitFrom(topic, 1, "", << >>)

\* variant: the id is always taken from the second segment
ExtractDeviceIdSecond(topicParts) ==
  IF Len(topicParts) >= 3 THEN topicParts[2] ELSE ""

\* variant: two segments are enough
ExtractDeviceIdFromTwo(topicParts) ==
  IF Len(topicParts) >= 2
  THEN IF topicParts[2] = "devices"
       THEN (IF Len(topicParts) >= 3 THEN topicParts[3] ELSE "")
       ELSE topicParts[2]
  ELSE ""

\* the device id handleMessage takes from the topic ('' when it takes none)
ExtractDeviceId(topicParts) ==
  IF Len(topicParts) >= 3
  THEN IF topicParts[2] = "devices" THEN topicParts[3] ELSE topicParts[2]
  ELSE ""

\* String.prototype.toLowerCase, character by character
LowerChar(c) ==
  CASE c = "O" -> "o"
    [] c = "N" -> "n"
    [] c = "F" -> "f"
    [] OTHER -> c

toLowerCase(str) == [i \in 1..Len(str) |-> LowerChar(str[i])]

\* JSON.parse(messageStr)
JSONParse(message) ==
  IF message.json
  THEN [thrown |-> FALSE, value |-> message.value]
  ELSE [thrown |-> TRUE, value |-> JUndef]

\* the text a plain-text payload is taken to state, "" when none
TextState(messageStr) ==
  IF toLowerCase(messageStr) = <<"o", "n">> THEN "on"
  ELSE IF toLowerCase(messageStr) = <<"o", "f", "f">> THEN "off"
  ELSE ""

\* `data` after the inner try/catch
ParseMessage(message) ==
  IF ~JSONParse(message).thrown
  THEN JSONParse(message).value
  ELSE IF TextState(message.chars) # ""
       THEN JObj([raw_message |-> JText(message.chars),
                  state |-> JStr(TextState(message.chars))])
       ELSE JObj([raw_message |-> JText(message.chars)])

NoCall(data) == [thrown |-> FALSE, method |-> "none", data |-> data]
Thrown(data) == [thrown |-> TRUE, method |-> "none", data |-> data]

\* `data.id = data.id || deviceId; deviceStore.addOrUpdateDevice(data)`
AsDiscovery(deviceId, data) ==
  LET assigned == SetProp(data, "id",
                          Or(GetProp(data, "id").value, JStr(deviceId)))
  IN IF assigned.thrown THEN Thrown(data)
     ELSE [thrown |-> FALSE, method |-> "addOrUpdateDevice",
           data |-> assigned.value]

\* variant: a kind the switch does not name is always a status update
DispatchGenericAsStatus(lastPart, deviceId, data) ==
  CASE lastPart = "discovery" ->
         IF GetProp(data, "id").thrown THEN Thrown(data)
         ELSE IF Truthy(GetProp(data, "id").value) \/ deviceId # ""
              THEN AsDiscovery(deviceId, data)
              ELSE NoCall(data)
    [] lastPart = "state" ->
         [thrown |-> FALSE, method |-> "updateDeviceState", data |-> data]
    [] OTHER ->
         [thrown |-> FALSE, method |-> "updateDeviceStatus", data |-> data]

\* the switch on the last topic segment, up to the call on deviceStore
Dispatch(lastPart, deviceId, data) ==
  CASE lastPart = "discovery" ->
         IF GetProp(data, "id").thrown THEN Thrown(data)
         ELSE IF Truthy(GetProp(data, "id").value) \/ deviceId # ""
              THEN AsDiscovery(deviceId, data)
              ELSE NoCall(data)
    [] lastPart = "status" ->
         [thrown |-> FALSE, method |-> "updateDeviceStatus", data |-> data]
    [] lastPart = "state" ->
         [thrown |-> FALSE, method |-> "updateDeviceState", data |-> data]
    [] OTHER ->
         IF GetProp(data, "id").thrown THEN Thrown(data)
         ELSE IF \/ Truthy(GetProp(data, "id").value)
                 \/ Truthy(GetProp(data, "name").value)
                 \/ Truthy(GetProp(data, "type").value)
              THEN AsDiscovery(deviceId, data)
              ELSE [thrown |-> FALSE, method |-> "updateDeviceStatus",
                    data |-> data]

\* variant: updateDeviceState exists and passes the payload's state on to
\* updateDevice as it came
StoreCallForwarding(method, deviceId, data, devs, t) ==
  IF /\ method = "updateDeviceState"
     /\ data.t = "object"
     /\ "state" \in DOMAIN data.o
     /\ data.o["state"].t = "string"
  THEN [thrown |-> FALSE,
        devices |-> updateDevice(devs, deviceId,
                                 [state |-> data.o["state"].s], t).devices]
  ELSE [thrown |-> method \notin DeviceStoreMethods, devices |-> devs]

\* variant: the method called marks the device online, then throws
StoreCallWritingThenThrowing(method, deviceId, data, devs, t) ==
  [thrown |-> TRUE,
   devices |-> updateDevice(devs, deviceId, [status |-> "online"], t).devices]

\* deviceStore.<method>(...): calling a property class DeviceStore does not
\* define throws TypeError before any code of the store runs.  handleMessage
\* names addOrUpdateDevice, updateDeviceStatus and updateDeviceState only.
StoreCall(method, deviceId, data, devs, t) ==
  [thrown |-> method \notin DeviceStoreMethods, devices |-> devs]

\* handleMessage(topic, message): the registry afterwards and what the
\* handler derived on the way.  outcome: "dropped" (return at the device id
\* check), "caught" (the outer catch ran), "handled" (the switch completed).
handleMessage(topic, message, devs, t) ==
  LET topicParts == Split(topic)
      deviceId == ExtractDeviceId(topicParts)
  IN IF deviceId = ""
     THEN [outcome |-> "dropped", devices |-> devs, deviceId |-> "",
           lastPart |-> "", data |-> JUndef, method |-> "none"]
     ELSE LET data == ParseMessage(message)
              lastPart == topicParts[Len(topicParts)]
              d == Dispatch(lastPart, deviceId, data)
              r == StoreCall(d.method, deviceId, d.data, devs, t)
          IN IF d.thrown
             THEN [outcome |-> "caught", devices |-> devs,
                   deviceId |-> deviceId, lastPart |-> lastPart,
                   data |-> d.data, method |-> "none"]
             ELSE IF d.method = "none"
             THEN [outcome |-> "handled", devices |-> devs,
                   deviceId |-> deviceId, lastPart |-> lastPart,
                   data |-> d.data, method |-> "none"]
             ELSE [outcome |-> IF r.thrown THEN "caught" ELSE "handled",
                   devices |-> r.devices,
                   deviceId |-> deviceId, lastPart |-> lastPart,
                   data |-> d.data, method |-> d.method]

----------------------------------------------------------------------------
(* Inputs *)

\* the tokens of the topic whose '/'-separated segments are segs
RECURSIVE Join(_)
Join(segs) ==
  IF Len(segs) = 0 THEN << >>
  ELSE IF Len(segs) = 1 THEN (IF segs[1] = "" THEN << >> ELSE <<segs[1]>>)
  ELSE (IF segs[1] = "" THEN <<"/">> ELSE <<segs[1], "/">>) \o Join(Tail(segs))

TopicIds == {"esp32-001", "esp32-002", ""}
TopicKinds == {"discovery", "status", "state", "info"}

\* the segments of the topics delivered: the current form, the legacy
\* form, and shorter ones
TopicSegments ==
  {<<"breeze", "devices", id, kind>> : id \in TopicIds, kind \in TopicKinds}
  \cup {<<"breeze", id, kind>> : id \in TopicIds, kind \in TopicKinds}
  \cup {<<"breeze", "devices", "status">>, <<"breeze", "status">>,
        <<"breeze", "devices">>, <<"breeze">>,
        <<"breeze", "unknownroom", "status">>}

Topics == {Join(segs) : segs \in TopicSegments}

JsonDoc(v) == [json |-> TRUE, value |-> v, chars |-> << >>]
PlainText(c) == [json |-> FALSE, value |-> JUndef, chars |-> c]

\* payloads that are JSON documents
JsonMessages ==
  { JsonDoc(JObj([id |-> JStr("esp32-002"), name |-> JStr("Lamp"),
                  type |-> JStr("ESP32"), state |-> JStr("off")])),
    JsonDoc(JObj([id |-> JStr("esp32-001"), name |-> JStr("Lamp"),
                  type |-> JStr("ESP32"), state |-> JStr("off")])),
    JsonDoc(JObj([name |-> JStr("Lamp")])),
    JsonDoc(JObj([online |-> JBool(TRUE), wifi_strength |-> JNum(-60),
                  uptime |-> JNum(120)])),
    JsonDoc(JObj([online |-> JBool(FALSE)])),
    JsonDoc(JObj([online |-> JBool(TRUE), wifi_strength |-> JStr("strong"),
                  uptime |-> JNum(120)])),
    JsonDoc(JObj([name |-> JStr("")])),
    JsonDoc(JObj([state |-> JStr("on")])),
    JsonDoc(JObj([state |-> JStr("flicker")])),
    JsonDoc(JObj(<< >>)),
    JsonDoc(JNull),
    JsonDoc(JNum(5)),
    JsonDoc(JStr("on")) }

\* payloads that are not JSON documents, by their characters
TextMessages ==
  { PlainText(<<"O", "N">>), PlainText(<<"o", "f", "f">>),
    PlainText(<<" ", "O", "N", " ">>), PlainText(<<"o", "n", "\n">>),
    PlainText(<<"f", "l", "i", "c", "k", "e", "r">>), PlainText(<< >>) }

Messages == JsonMessages \cup TextMessages

\* the messages delivered between the operations of the store
StepTopics ==
  { Join(<<"breeze", "devices", "esp32-001", "state">>),
    Join(<<"breeze", "devices", "esp32-002", "discovery">>),
    Join(<<"breeze", "devices", "esp32-002", "status">>),
    Join(<<"breeze", "esp32-001", "status">>) }

StepMessages ==
  { JsonDoc(JObj([id |-> JStr("esp32-002"), name |-> JStr("Lamp"),
                  type |-> JStr("ESP32"), state |-> JStr("off")])),
    JsonDoc(JObj([online |-> JBool(TRUE), wifi_strength |-> JNum(-60),
                  uptime |-> JNum(120)])),
    JsonDoc(JObj([state |-> JStr("on")])),
    JsonDoc(JObj([state |-> JStr("flicker")])),
    PlainText(<<"O", "N">>) }

\* ids the callers of the store name
StoreIds == {"esp32-001", "esp32-002"}

\* partial updates the callers of updateDevice pass (Partial<DeviceUpdate>)
Updates ==
  { [state |-> "on"],
    [status |-> "online", wifiStrength |-> -60, uptime |-> 120],
    [status |-> "offline"],
    [state |-> "off", lastSeen |-> 0],
    << >> }

\* records the callers of addDevice pass
NewDevices(t) ==
  { [id |-> "esp32-002", name |-> "Lamp", type |-> "ESP32", status |-> "online",
     state |-> "off", lastSeen |-> t] }

----------------------------------------------------------------------------
(* The bus: topic filters and the messages in flight *)

\* one message on the bus; `cause` tells which handler published it
BusMessage(topic, message, retain, cause) ==
  [topic |-> topic, message |-> message, retain |-> retain, cause |-> cause]

\* an MQTT topic filter matches a topic: '+' stands for exactly one level
Matches(filterParts, topicParts) ==
  /\ Len(filterParts) = Len(topicParts)
  /\ \A i \in 1..Len(filterParts) :
       filterParts[i] = "+" \/ filterParts[i] = topicParts[i]

\* JSON.stringify of an object: a property that is undefined is left out
Stringify(o) ==
  JsonDoc(JObj([k \in {j \in DOMAIN o : o[j].t # "undefined"} |-> o[k]]))

----------------------------------------------------------------------------
(* MQTTManager: the connection and publishCommand *)

\* the fields of a new MQTTManager
NewManager == [client |-> FALSE, isConnected |-> FALSE]

\* the filters subscribeToTopics subscribes to
ServerFilters ==
  { <<"breeze", "+", "+", "+">>,
    <<"breeze", "devices", "+", "+">>,
    <<"breeze", "devices", "+", "discovery">>,
    <<"breeze", "devices", "+", "status">>,
    <<"breeze", "devices", "+", "state">> }

\* the broker forwards a topic to the server while its subscriptions stand
ServerReceives(mgr, topic) ==
  /\ mgr.client
  /\ mgr.isConnected
  /\ \E f \in ServerFilters : Matches(f, Split(topic))

\* the topic publishCommand publishes on
CommandTopic(deviceId, command) ==
  Join(<<"breeze", "devices", deviceId, "command", command>>)

\* variant: while the bus is not connected the command is kept and sent
publishCommandQueueing(mgr, deviceId, command, data, err, devs, t) ==
  [returned |-> mgr.isConnected /\ mgr.client /\ ~err,
   published |-> IF err THEN << >>
                 ELSE <<BusMessage(CommandTopic(deviceId, command),
                                   Stringify(data), FALSE, "server")>>,
   devices |-> devs]

\* variant: a set_state command is written to the registry as it is sent
publishCommandOptimistic(mgr, deviceId, command, data, err, devs, t) ==
  IF ~mgr.isConnected \/ ~mgr.client
  THEN [returned |-> FALSE, published |-> << >>, devices |-> devs]
  ELSE IF err
  THEN [returned |-> FALSE, published |-> << >>, devices |-> devs]
  ELSE [returned |-> TRUE,
        published |-> <<BusMessage(CommandTopic(deviceId, command),
                                   Stringify(data), FALSE, "server")>>,
        devices |-> IF "state" \in DOMAIN data /\ data["state"].t = "string"
                    THEN updateDevice(devs, deviceId,
                                      [state |-> data["state"].s], t).devices
                    ELSE devs]

\* publishCommand(deviceId, command, data): the value the promise resolves
\* to, what is handed to the bus, and the registry afterwards.  err is the
\* error the publish callback is called with.
publishCommand(mgr, deviceId, command, data, err, devs, t) ==
  IF ~mgr.isConnected \/ ~mgr.client
  THEN [returned |-> FALSE, published |-> << >>, devices |-> devs]
  ELSE IF err
  THEN [returned |-> FALSE, published |-> << >>, devices |-> devs]
  ELSE [returned |-> TRUE,
        published |-> <<BusMessage(CommandTopic(deviceId, command),
                                   Stringify(data), FALSE, "server")>>,
        devices |-> devs]

----------------------------------------------------------------------------
(* DeviceSimulator *)

\* the device the simulator stands for
SimulatedId == "esp32-001"
SimulatedName == "Living Room Light"

\* seconds sendStatusUpdate adds to uptime
UptimeStep == 30

\* the fields of a new DeviceSimulator; timers counts the setInterval
\* timers startStatusUpdates has started
NewSimulator ==
  [online |-> FALSE, state |-> JStr("off"), uptime |-> 0, timers |-> 0]

SimTopic(kind) == Join(<<"breeze", "devices", SimulatedId, kind>>)

\* this.topics.command
SimFilter == <<"breeze", "devices", SimulatedId, "command", "+">>

\* the broker forwards a topic to the simulator while its subscription stands
SimReceives(s, topic) == s.online /\ Matches(SimFilter, Split(topic))

\* what sendDiscoveryMessage publishes
DiscoveryMessage(s) ==
  BusMessage(SimTopic("discovery"),
             Stringify([id |-> JStr(SimulatedId), name |-> JStr(SimulatedName),
                        type |-> JStr("ESP32"), firmware |-> JStr("1.0.0"),
                        ip |-> JStr("192.168.1.100"),
                        mac |-> JStr("24:6F:28:12:34:56"),
                        state |-> s.state]),
             TRUE, "connect")

\* variant: the status is published whether the simulator is online or not
sendStatusUpdateAlways(s, wifi, heap) ==
  [sim |-> [s EXCEPT !.uptime = s.uptime + UptimeStep],
   published |-> <<BusMessage(SimTopic("status"),
                              Stringify([online |-> JBool(TRUE),
                                         wifi_strength |-> JNum(wifi),
                                         uptime |-> JNum(s.uptime),
                                         free_heap |-> JNum(heap)]),
                              FALSE, "timer")>>]

\* sendStatusUpdate(): the simulator afterwards and what it publishes
sendStatusUpdate(s, wifi, heap) ==
  IF ~s.online
  THEN [sim |-> s, published |-> << >>]
  ELSE [sim |-> [s EXCEPT !.uptime = s.uptime + UptimeStep],
        published |-> <<BusMessage(SimTopic("status"),
                                   Stringify([online |-> JBool(TRUE),
                                              wifi_strength |-> JNum(wifi),
                                              uptime |-> JNum(s.uptime),
                                              free_heap |-> JNum(heap)]),
                                   FALSE, "timer")>>]

\* sendStateUpdate(): what it publishes
sendStateUpdate(s, t, cause) ==
  IF ~s.online
  THEN << >>
  ELSE <<BusMessage(SimTopic("state"),
                    Stringify([state |-> s.state, timestamp |-> JNum(t)]),
                    FALSE, cause)>>

\* handleCommand(topic, message): the simulator afterwards and what it
\* publishes; a throw inside the try leaves both as they were
handleCommand(s, topic, message, t) ==
  LET topicParts == Split(topic)
      command == topicParts[Len(topicParts)]
      parsed == JSONParse(message)
      asked == GetProp(parsed.value, "state")
  IN IF parsed.thrown
     THEN [sim |-> s, published |-> << >>]
     ELSE IF command # "set_state"
     THEN [sim |-> s, published |-> << >>]
     ELSE IF asked.thrown
     THEN [sim |-> s, published |-> << >>]
     ELSE LET set == [s EXCEPT !.state = asked.value]
          IN [sim |-> set, published |-> sendStateUpdate(set, t, "command")]

\* the state the random change asks for
FlippedState(s) == IF s.state = JStr("on") THEN JStr("off") ELSE JStr("on")

----------------------------------------------------------------------------
(* The emulator of the shell script *)

\* UPDATE_INTERVAL, the seconds between two status updates
UPDATE_INTERVAL == 30

\* one thing a function of the script did on the bus: a subscription or a
\* publication, with the state it carries
Did(kind, value, retain) == [kind |-> kind, value |-> value, retain |-> retain]

\* the variables of the script when main starts; heard is DEVICE_STATE as
\* the listener's subshell holds it, file the content of the state file
\* (<< >> when there is none)
NewEmulator ==
  [online |-> FALSE, state |-> "off", uptime |-> 0, auto |-> FALSE,
   listening |-> FALSE, heard |-> "off", file |-> << >>]

send_discovery(e) == <<Did("discovery", e.state, TRUE)>>

send_status(e) == <<Did("status", "", FALSE)>>

send_state(state) == <<Did("state", state, FALSE)>>

\* start_mqtt_listener: the loop behind mosquitto_sub runs in a subshell,
\* with the DEVICE_STATE of the moment it starts
start_mqtt_listener(e) ==
  [emulator |-> [e EXCEPT !.listening = TRUE, !.heard = e.state],
   did |-> <<Did("subscribe", "", FALSE)>>]

\* go_online; reachable tells whether the test publication succeeds
go_online(e, reachable) ==
  IF e.online \/ ~reachable
  THEN [emulator |-> e, did |-> << >>]
  ELSE LET on == [e EXCEPT !.online = TRUE]
           listener == start_mqtt_listener(on)
       IN [emulator |-> listener.emulator,
           did |-> send_discovery(on) \o send_status(on) \o listener.did]

go_offline(e) ==
  IF ~e.online
  THEN [emulator |-> e, did |-> << >>]
  ELSE [emulator |-> [e EXCEPT !.online = FALSE, !.listening = FALSE,
                               !.file = << >>],
        did |-> << >>]

toggle_state(e) ==
  LET state == IF e.state = "on" THEN "off" ELSE "on"
  IN [emulator |-> [e EXCEPT !.state = state], did |-> send_state(state)]

update_metrics(e) == [e EXCEPT !.uptime = e.uptime + UPDATE_INTERVAL]

check_remote_state(e) ==
  IF e.file # << >> /\ e.file[1] # e.state
  THEN [e EXCEPT !.state = e.file[1], !.file = << >>]
  ELSE e

\* run_auto_mode; toggle and cycle are the two random draws
run_auto_mode(e, toggle, cycle, reachable) ==
  IF ~e.auto
  THEN [emulator |-> e, did |-> << >>]
  ELSE LET toggled == IF toggle THEN toggle_state(e)
                      ELSE [emulator |-> e, did |-> << >>]
           off == go_offline(toggled.emulator)
           on == go_online(off.emulator, reachable)
       IN IF cycle /\ toggled.emulator.online
          THEN [emulator |-> on.emulator, did |-> toggled.did \o on.did]
          ELSE toggled

\* the body of the main loop's periodic update
periodic_update(e, toggle, cycle, reachable) ==
  IF ~e.online
  THEN [emulator |-> e, did |-> << >>]
  ELSE LET measured == update_metrics(e)
           checked == check_remote_state(measured)
           auto == run_auto_mode(checked, toggle, cycle, reachable)
       IN [emulator |-> auto.emulator,
           did |-> send_status(measured) \o auto.did]

\* grep -q '"state"' on a line the listener reads
NamesState(line) ==
  line.json /\ line.value.t = "object" /\ "state" \in DOMAIN line.value.o

\* grep -o '"state":"[^"]*"' | cut -d'"' -f4 : the string given for state,
\* empty when what is given is not a string
new_state(line) ==
  IF line.value.o["state"].t = "string" THEN line.value.o["state"].s ELSE ""

\* variant: the listener answers every line that names a state
listener_line_answering(e, line) ==
  IF NamesState(line)
  THEN [emulator |-> [e EXCEPT !.heard = new_state(line),
                               !.file = <<new_state(line)>>],
        did |-> send_state(new_state(line))]
  ELSE [emulator |-> e, did |-> << >>]

\* the body of the listener's loop for one line read from mosquitto_sub
listener_line(e, line) ==
  IF NamesState(line) /\ new_state(line) # e.heard
  THEN [emulator |-> [e EXCEPT !.heard = new_state(line),
                               !.file = <<new_state(line)>>],
        did |-> send_state(new_state(line))]
  ELSE [emulator |-> e, did |-> << >>]

----------------------------------------------------------------------------
(* The state machine.  `last` records the operation that ran last: its    *)
(* arguments, what handleMessage derived, the value returned.             *)

NoLast ==
  [op |-> "none", topic |-> << >>, message |-> JsonDoc(JUndef),
   outcome |-> "", deviceId |-> "", lastPart |-> "", data |-> JUndef,
   method |-> "none", id |-> "", update |-> << >>, result |-> << >>,
   again |-> FALSE, priorState |-> "", returned |-> FALSE, cause |-> "",
   did |-> << >>]

\* getAllDevices has not been called
NoList == [taken |-> FALSE, list |-> << >>, live |-> FALSE]

\* the state of the record of id before an operation, "" without a record
PriorState(devs, id) == IF MapHas(devs, id) THEN MapGet(devs, id).state ELSE ""

\* the operation and its arguments
Signature(l) == <<l.op, l.topic, l.message, l.id, l.update>>

\* l, marked as the same call as the one before it
After(prev, l) == [l EXCEPT !.again = (Signature(l) = Signature(prev))]

\* the registry the constructor leaves
Constructed == addDevice(addDevice(<< >>, ExampleDevices(0)[1]), ExampleDevices(0)[2])

Init ==
  /\ now = 0
  /\ devices = Constructed
  /\ last = NoLast
  /\ manager = NewManager
  /\ sim = NewSimulator
  /\ toDevice = << >>
  /\ toServer = << >>
  /\ listed = NoList
  /\ emulator = NewEmulator

Tick ==
  /\ now < MaxClock
  /\ now' = now + 1
  /\ UNCHANGED <<devices, last, busVars, sideVars>>

\* what handleMessage leaves in `last`
Handled(topic, message, h) ==
  [NoLast EXCEPT !.op = "handleMessage", !.topic = topic,
     !.message = message, !.outcome = h.outcome, !.deviceId = h.deviceId,
     !.lastPart = h.lastPart, !.data = h.data, !.method = h.method]

\* the bus delivers a message and the 'message' callback runs
HandleMessage ==
  \E topic \in StepTopics, message \in StepMessages :
    LET h == handleMessage(topic, message, devices, now)
    IN /\ devices' = h.devices
       /\ last' = After(last, Handled(topic, message, h))
       /\ UNCHANGED <<now, busVars, sideVars>>

AddDevice ==
  \E device \in NewDevices(now) :
    /\ devices' = addDevice(devices, device)
    /\ last' = After(last, [NoLast EXCEPT !.op = "addDevice", !.id = device.id])
    /\ UNCHANGED <<now, busVars, sideVars>>

UpdateDevice ==
  \E id \in StoreIds, update \in Updates :
    LET r == updateDevice(devices, id, update, now)
    IN /\ devices' = r.devices
       /\ last' = After(last, [NoLast EXCEPT !.op = "updateDevice", !.id = id,
                                 !.update = update, !.result = r.result])
       /\ UNCHANGED <<now, busVars, sideVars>>

RemoveDevice ==
  \E id \in StoreIds :
    /\ devices' = removeDevice(devices, id)
    /\ last' = After(last, [NoLast EXCEPT !.op = "removeDevice", !.id = id])
    /\ UNCHANGED <<now, busVars, sideVars>>

ToggleDeviceState ==
  \E id \in StoreIds :
    LET r == toggleDeviceState(devices, id, now)
    IN /\ devices' = r.devices
       /\ last' = After(last, [NoLast EXCEPT !.op = "toggleDeviceState",
                                 !.id = id, !.result = r.result,
                                 !.priorState = PriorState(devices, id)])
       /\ UNCHANGED <<now, busVars, sideVars>>

Next ==
  \/ Tick
  \/ HandleMessage
  \/ AddDevice
  \/ UpdateDevice
  \/ RemoveDevice
  \/ ToggleDeviceState

Spec == Init /\ [][Next]_vars

----------------------------------------------------------------------------
(* The handler alone, on every topic and payload of Topics and Messages:  *)
(* one delivery to a registry the store operations can have produced.     *)

HandlerRegistries ==
  { Constructed,
    toggleDeviceState(Constructed, "esp32-001", 0).devices,
    addDevice(Constructed, CHOOSE d \in NewDevices(0) : TRUE) }

InitHandler ==
  /\ now = 0
  /\ devices \in HandlerRegistries
  /\ \E topic \in Topics, message \in Messages :
       last = [NoLast EXCEPT !.op = "deliver", !.topic = topic,
                 !.message = message]
  /\ manager = NewManager
  /\ sim = NewSimulator
  /\ toDevice = << >>
  /\ toServer = << >>
  /\ listed = NoList
  /\ emulator = NewEmulator

HandleDelivered ==
  /\ last.op = "deliver"
  /\ LET h == handleMessage(last.topic, last.message, devices, now)
     IN /\ devices' = h.devices
        /\ last' = Handled(last.topic, last.message, h)
  /\ UNCHANGED <<now, busVars, sideVars>>

NextHandler == HandleDelivered

SpecHandler == InitHandler /\ [][NextHandler]_vars

----------------------------------------------------------------------------
(* The server, one simulated device and the bus between them: commands go *)
(* out through publishCommand, the simulator answers, the answers come    *)
(* back through handleMessage.                                            *)

\* ids the callers of publishCommand name
CommandIds == {SimulatedId}

\* the command and data the callers of publishCommand pass
CommandCalls ==
  { <<"set_state", [state |-> JStr("on")]>>,
    <<"set_state", [state |-> JStr("off")]>>,
    <<"set_state", << >>>>,
    <<"restart", << >>>> }

\* wifi_strength and free_heap a status message carries
WifiStrengths == {-60}
FreeHeaps == {200000}

\* the messages of published the broker forwards to the simulator
ForSimulator(published, s) ==
  SelectSeq(published, LAMBDA m : SimReceives(s, m.topic))

\* the messages of published the broker forwards to the server
ForServer(published, mgr) ==
  SelectSeq(published, LAMBDA m : ServerReceives(mgr, m.topic))

\* the bus holds at most MaxInFlight messages
Room == Len(toDevice') + Len(toServer') <= MaxInFlight

BusOp(op) == [NoLast EXCEPT !.op = op]

\* connect(): a client is created unless there is one
ServerConnect ==
  /\ manager' = IF manager.client THEN manager
                ELSE [manager EXCEPT !.client = TRUE]
  /\ last' = BusOp("connect")
  /\ UNCHANGED <<devices, now, sim, toDevice, toServer, sideVars>>

\* the client's 'connect' event: isConnected, subscribeToTopics
ServerOnConnect ==
  /\ manager.client
  /\ ~manager.isConnected
  /\ manager' = [manager EXCEPT !.isConnected = TRUE]
  /\ last' = BusOp("onConnect")
  /\ UNCHANGED <<devices, now, sim, toDevice, toServer, sideVars>>

\* the client's 'error' event
ServerOnError ==
  /\ manager.client
  /\ manager' = [manager EXCEPT !.isConnected = FALSE]
  /\ last' = BusOp("onError")
  /\ UNCHANGED <<devices, now, sim, toDevice, toServer, sideVars>>

\* the client's 'close' event; what was on its way to the server is lost
ServerOnClose ==
  /\ manager.client
  /\ manager' = [manager EXCEPT !.isConnected = FALSE]
  /\ toServer' = << >>
  /\ last' = BusOp("onClose")
  /\ UNCHANGED <<devices, now, sim, toDevice, sideVars>>

\* disconnect()
ServerDisconnect ==
  /\ manager' = IF manager.client THEN NewManager ELSE manager
  /\ toServer' = IF manager.client THEN << >> ELSE toServer
  /\ last' = BusOp("disconnect")
  /\ UNCHANGED <<devices, now, sim, toDevice, sideVars>>

PublishCommand ==
  \E deviceId \in CommandIds, call \in CommandCalls, err \in BOOLEAN :
    LET r == publishCommand(manager, deviceId, call[1], call[2], err,
                            devices, now)
    IN /\ devices' = r.devices
       /\ toDevice' = toDevice \o ForSimulator(r.published, sim)
       /\ toServer' = toServer \o ForServer(r.published, manager)
       /\ last' = [NoLast EXCEPT !.op = "publishCommand", !.id = deviceId,
                     !.method = call[1], !.data = JObj(call[2]),
                     !.returned = r.returned]
       /\ UNCHANGED <<now, manager, sim, sideVars>>
       /\ Room

\* the server's 'message' event for the message the bus delivers next
ServerHandleMessage ==
  /\ manager.client
  /\ toServer # << >>
  /\ LET m == Head(toServer)
         h == handleMessage(m.topic, m.message, devices, now)
     IN /\ devices' = h.devices
        /\ last' = [Handled(m.topic, m.message, h) EXCEPT !.cause = m.cause]
  /\ toServer' = Tail(toServer)
  /\ UNCHANGED <<now, manager, sim, toDevice, sideVars>>

\* the simulator's 'connect' event: online, subscribeToCommands,
\* sendDiscoveryMessage, startStatusUpdates
SimOnConnect ==
  /\ ~sim.online
  /\ sim.timers < MaxTimers
  /\ sim' = [sim EXCEPT !.online = TRUE, !.timers = sim.timers + 1]
  /\ toServer' = toServer \o ForServer(<<DiscoveryMessage(sim)>>, manager)
  /\ last' = BusOp("simConnect")
  /\ UNCHANGED <<devices, now, manager, toDevice, sideVars>>
  /\ Room

\* the simulator's 'error' event
SimOnError ==
  /\ sim' = [sim EXCEPT !.online = FALSE]
  /\ last' = BusOp("simError")
  /\ UNCHANGED <<devices, now, manager, toDevice, toServer, sideVars>>

\* the simulator's 'close' event; what was on its way to it is lost
SimOnClose ==
  /\ sim' = [sim EXCEPT !.online = FALSE]
  /\ toDevice' = << >>
  /\ last' = BusOp("simClose")
  /\ UNCHANGED <<devices, now, manager, toServer, sideVars>>

\* the simulator's 'message' event for the command the bus delivers next
SimHandleCommand ==
  /\ toDevice # << >>
  /\ LET m == Head(toDevice)
         r == handleCommand(sim, m.topic, m.message, now)
     IN /\ sim' = r.sim
        /\ toServer' = toServer \o ForServer(r.published, manager)
        /\ last' = [NoLast EXCEPT !.op = "simCommand", !.topic = m.topic,
                      !.message = m.message]
  /\ toDevice' = Tail(toDevice)
  /\ UNCHANGED <<devices, now, manager, sideVars>>
  /\ Room

\* a status timer of startStatusUpdates fires
SimStatusTimer ==
  /\ sim.timers > 0
  /\ sim.uptime < MaxUptime
  /\ \E wifi \in WifiStrengths, heap \in FreeHeaps :
       LET r == sendStatusUpdate(sim, wifi, heap)
       IN /\ sim' = r.sim
          /\ toServer' = toServer \o ForServer(r.published, manager)
  /\ last' = BusOp("simStatus")
  /\ UNCHANGED <<devices, now, manager, toDevice, sideVars>>
  /\ Room

\* the random state change of the script, taken when the device is online
SimRandomChange ==
  /\ sim.online
  /\ LET flipped == [sim EXCEPT !.state = FlippedState(sim)]
     IN /\ sim' = flipped
        /\ toServer' = toServer
                       \o ForServer(sendStateUpdate(flipped, now, "random"),
                                    manager)
  /\ last' = BusOp("simRandom")
  /\ UNCHANGED <<devices, now, manager, toDevice, sideVars>>
  /\ Room

NextBus ==
  \/ ServerConnect
  \/ ServerOnConnect
  \/ ServerOnError
  \/ ServerOnClose
  \/ ServerDisconnect
  \/ PublishCommand
  \/ ServerHandleMessage
  \/ SimOnConnect
  \/ SimOnError
  \/ SimOnClose
  \/ SimHandleCommand
  \/ SimStatusTimer
  \/ SimRandomChange

SpecBus == Init /\ [][NextBus]_vars

----------------------------------------------------------------------------
(* The store and a caller that keeps the list getAllDevices returned *)

GetAllDevices ==
  /\ listed' = [taken |-> TRUE, list |-> getAllDevices(devices).list,
                live |-> getAllDevices(devices).live]
  /\ last' = After(last, [NoLast EXCEPT !.op = "getAllDevices"])
  /\ UNCHANGED <<devices, now, busVars, emulator>>

NextList ==
  \/ AddDevice
  \/ UpdateDevice
  \/ RemoveDevice
  \/ ToggleDeviceState
  \/ GetAllDevices

SpecList == Init /\ [][NextList]_vars

----------------------------------------------------------------------------
(* The emulator of the shell script, its keys, its timer and its listener *)

\* the lines the listener reads: the payloads of commands
EmulatorLines ==
  { Stringify([state |-> JStr("on")]),
    Stringify([state |-> JStr("off")]),
    Stringify([state |-> JStr("dim")]),
    Stringify(<< >>) }

\* key o, or --online
KeyOnline ==
  \E reachable \in BOOLEAN :
    /\ emulator' = go_online(emulator, reachable).emulator
    /\ last' = [NoLast EXCEPT !.op = "go_online",
                  !.did = go_online(emulator, reachable).did]
    /\ UNCHANGED <<devices, now, busVars, listed>>

\* key f
KeyOffline ==
  /\ emulator' = go_offline(emulator).emulator
  /\ last' = [NoLast EXCEPT !.op = "go_offline"]
  /\ UNCHANGED <<devices, now, busVars, listed>>

\* key t
KeyToggle ==
  /\ emulator' = IF emulator.online THEN toggle_state(emulator).emulator
                 ELSE emulator
  /\ last' = [NoLast EXCEPT !.op = "toggle",
                !.did = IF emulator.online THEN toggle_state(emulator).did
                        ELSE << >>]
  /\ UNCHANGED <<devices, now, busVars, listed>>

\* key a
KeyAuto ==
  /\ emulator' = [emulator EXCEPT !.auto = ~emulator.auto]
  /\ last' = [NoLast EXCEPT !.op = "auto"]
  /\ UNCHANGED <<devices, now, busVars, listed>>

\* UPDATE_INTERVAL seconds have passed in the main loop
PeriodicUpdate ==
  /\ emulator.uptime < MaxUptime
  /\ \E toggle \in BOOLEAN, cycle \in BOOLEAN, reachable \in BOOLEAN :
       LET r == periodic_update(emulator, toggle, cycle, reachable)
       IN /\ emulator' = r.emulator
          /\ last' = [NoLast EXCEPT !.op = "update", !.did = r.did]
  /\ UNCHANGED <<devices, now, busVars, listed>>

\* the listener reads a line
ListenerLine ==
  /\ emulator.listening
  /\ \E line \in EmulatorLines :
       /\ emulator' = listener_line(emulator, line).emulator
       /\ last' = [NoLast EXCEPT !.op = "command", !.message = line,
                     !.did = listener_line(emulator, line).did]
       /\ UNCHANGED <<devices, now, busVars, listed>>

NextEmulator ==
  \/ KeyOnline
  \/ KeyOffline
  \/ KeyToggle
  \/ KeyAuto
  \/ PeriodicUpdate
  \/ ListenerLine

SpecEmulator == Init /\ [][NextEmulator]_vars

----------------------------------------------------------------------------
(* Properties *)

\* the payload of l is a JSON object
IsObject(l) == l.message.json /\ l.message.value.t = "object"

\* the payload of l is a JSON object whose field key is a string
HasString(l, key) ==
  /\ IsObject(l)
  /\ key \in DOMAIN l.message.value.o
  /\ l.message.value.o[key].t = "string"

PayloadString(l, key) == l.message.value.o[key].s

\* l is the handling of a message of the given kinds that names a device
Delivered(l, kinds) ==
  l.op = "handleMessage" /\ l.deviceId # "" /\ l.lastPart \in kinds

\* a discovery message whose payload is an object with a string id
ValidDiscovery(l) ==
  /\ Delivered(l, {"discovery"})
  /\ HasString(l, "id")
  /\ PayloadString(l, "id") # ""

\* the step is an operation: the clock stands still, and `last` is the
\* operation that ran
Ran == now' = now

\* C1: after a valid discovery payload with an id the registry does not
\* hold is handled, getDevice(id) returns a record with status online and
\* with every field the payload provides set to the value provided.
C1_FreshDiscoveryIsRegistered ==
  [][ (Ran /\ ValidDiscovery(last') /\ getDevice(devices, PayloadString(last', "id")) = << >>)
      => LET got == getDevice(devices', PayloadString(last', "id"))
         IN /\ got # << >>
            /\ got[1].status = "online"
            /\ \A k \in {"id", "name", "type", "state"} :
                 HasString(last', k) =>
                   (k \in DOMAIN got[1] /\ got[1][k] = PayloadString(last', k)) ]_vars

\* the record updateDevice found, and the record it stored
UpdatedFrom == MapGet(devices, last'.id)
UpdatedTo == MapGet(devices', last'.id)

\* an updateDevice that found the record
Merged(l) == l.op = "updateDevice" /\ l.result # << >>

\* C2 (as claimed): an updateDevice on an existing record leaves every
\* field absent from the update with the value it had.
C2_OmittedFieldsKept ==
  [][ (Ran /\ Merged(last'))
      => \A k \in DOMAIN UpdatedFrom \ DOMAIN last'.update :
           k \in DOMAIN UpdatedTo /\ UpdatedTo[k] = UpdatedFrom[k] ]_vars

\* C2 (amended): an updateDevice on an existing record leaves every field
\* absent from the update, other than lastSeen, with the value it had, and
\* sets lastSeen to the current time.
C2_OmittedFieldsKeptButLastSeen ==
  [][ (Ran /\ Merged(last'))
      => /\ \A k \in DOMAIN UpdatedFrom \ (DOMAIN last'.update \cup {"lastSeen"}) :
              k \in DOMAIN UpdatedTo /\ UpdatedTo[k] = UpdatedFrom[k]
         /\ UpdatedTo.lastSeen = now' ]_vars

\* C2 witness: after the clock moved, an update that carries status but no
\* state or name was merged into a record whose state was on.
C2_Witness ==
  /\ Merged(last)
  /\ "state" \notin DOMAIN last.update
  /\ "status" \in DOMAIN last.update
  /\ last.result[1].state = "on"
  /\ last.result[1].name = "Living Room Light"
  /\ now > 0

\* C3: a status or state message for an id without a record leaves a
\* record for that id in the registry.
C3_UnknownIdGetsStub ==
  [][ (Ran /\ Delivered(last', {"status", "state"}) /\ getDevice(devices, last'.deviceId) = << >>)
      => getDevice(devices', last'.deviceId) # << >> ]_vars

C5_InvalidStateStoredOff ==
  [][ ( /\ Ran
        /\ Delivered(last', {"state"})
        /\ HasString(last', "state")
        /\ PayloadString(last', "state") \notin {"on", "off"}
        /\ getDevice(devices, last'.deviceId) # << >> )
      => /\ getDevice(devices', last'.deviceId) # << >>
         /\ getDevice(devices', last'.deviceId)[1].state = "off" ]_vars

\* C6: handleMessage ends in its own return or in its own catch for every
\* topic and payload, and a message that is dropped or that throws leaves
\* the registry as it was.
C6_HandlerTotalAndAtomic ==
  [][ (Ran /\ last'.op = "handleMessage")
      => /\ last'.outcome \in {"dropped", "caught", "handled"}
         /\ (last'.outcome \in {"dropped", "caught"} => devices' = devices) ]_vars

\* C6 witness: a payload that is not a JSON object (plain text, or JSON
\* null, a number, a string) addressed to esp32-001 ended in the catch.
C6_Witness ==
  /\ last.op = "handleMessage"
  /\ last.outcome = "caught"
  /\ last.deviceId = "esp32-001"
  /\ ~IsObject(last)

\* the segment the claim takes the device id from
IdSegment(segs) == IF segs[2] = "devices" THEN segs[3] ELSE segs[2]

\* C7: for a topic of at least 3 segments the device id is segment 3 when
\* segment 2 is "devices" and segment 2 otherwise, and the kind is the last
\* segment.
C7_TopicParsed ==
  \A segs \in TopicSegments :
    (last.op = "handleMessage" /\ last.topic = Join(segs) /\ Len(segs) >= 3)
    => /\ last.deviceId = IdSegment(segs)
       /\ (last.deviceId # "" => last.lastPart = segs[Len(segs)])

\* C7 witness: a topic of the current form and three segments was parsed.
C7_Witness ==
  /\ last.op = "handleMessage"
  /\ last.topic = Join(<<"breeze", "devices", "status">>)
  /\ last.deviceId = "status"
  /\ last.lastPart = "status"

\* C8: a message whose topic has fewer than 3 segments, or an empty device
\* id segment, is dropped: no method of the store is called and the
\* registry is unchanged.
C8_ShortTopicDropped ==
  [][ \A segs \in TopicSegments :
        ( /\ Ran
          /\ last'.op = "handleMessage"
          /\ last'.topic = Join(segs)
          /\ (Len(segs) < 3 \/ IdSegment(segs) = "") )
        => /\ last'.outcome = "dropped"
           /\ last'.method = "none"
           /\ devices' = devices ]_vars

\* C8 witness: a two-segment topic, or a topic with an empty id segment,
\* was dropped.
C8_Witness ==
  /\ last.op = "handleMessage"
  /\ last.outcome = "dropped"
  /\ last.topic \in {Join(<<"breeze", "status">>),
                     Join(<<"breeze", "devices", "", "state">>)}

Whitespace == {" ", "\n"}

\* String.prototype.trim, as the claim applies it
RECURSIVE Trim(_)
Trim(str) ==
  IF Len(str) = 0 THEN str
  ELSE IF Head(str) \in Whitespace THEN Trim(Tail(str))
  ELSE IF str[Len(str)] \in Whitespace THEN Trim(SubSeq(str, 1, Len(str) - 1))
  ELSE str

\* the state the claim reads in a text, "" when none
TrimmedState(str) == TextState(Trim(str))

\* C9: a payload that is not JSON is wrapped as {raw_message: text}, and
\* when the trimmed, lowercased text is "on" or "off" the decoded data has
\* that value as its state.
C9_PlainTextDecoded ==
  (last.op = "handleMessage" /\ last.deviceId # "" /\ ~last.message.json)
  => /\ last.data.t = "object"
     /\ "raw_message" \in DOMAIN last.data.o
     /\ last.data.o["raw_message"] = JText(last.message.chars)
     /\ TrimmedState(last.message.chars) # ""
          => /\ "state" \in DOMAIN last.data.o
             /\ last.data.o["state"] = JStr(TrimmedState(last.message.chars))

\* a status update: updateDevice, or a status message
StatusUpdate(l) == l.op = "updateDevice" \/ Delivered(l, {"status"})

\* C10 (as claimed): the same status update applied a second time in a row
\* leaves the record the first application produced.
C10_SameUpdateTwiceSameRecord ==
  [][ (Ran /\ last'.again /\ StatusUpdate(last')) => devices' = devices ]_vars

\* C10 (amended): the same status update applied a second time in a row
\* leaves every record as the first application left it, but for lastSeen.
C10_SameUpdateTwiceSameButLastSeen ==
  [][ (Ran /\ last'.again /\ StatusUpdate(last'))
      => /\ Len(devices') = Len(devices)
         /\ \A i \in 1..Len(devices) :
              /\ devices'[i].key = devices[i].key
              /\ DOMAIN devices'[i].value = DOMAIN devices[i].value
              /\ \A k \in DOMAIN devices[i].value \ {"lastSeen"} :
                   devices'[i].value[k] = devices[i].value[k] ]_vars

\* C10 witness: an update carrying status, wifiStrength and uptime was
\* merged twice in a row, the second time at a later clock value.
C10_Witness ==
  /\ last.again
  /\ Merged(last)
  /\ "uptime" \in DOMAIN last.update
  /\ last.result[1].lastSeen > 0

\* C11: updateDevice for an id without a record returns null, creates no
\* record and leaves every record as it was.
C11_UnknownIdNotFound ==
  [][ (Ran /\ last'.op = "updateDevice" /\ ~MapHas(devices, last'.id))
      => /\ last'.result = << >>
         /\ devices' = devices ]_vars

\* C11 witness: an update carrying fields was applied to esp32-002 while
\* the registry held no record for it.
C11_Witness ==
  /\ last.op = "updateDevice"
  /\ last.id = "esp32-002"
  /\ last.result = << >>
  /\ "status" \in DOMAIN last.update
  /\ ~MapHas(devices, "esp32-002")

\* the entries of a map other than the one of key k
Others(m, k) == SelectSeq(m, LAMBDA e : e.key # k)

\* C12: toggleDeviceState on an existing record turns on into off and
\* anything else into on, changes no other field but lastSeen, changes no
\* other record and returns the record stored; on an unknown id it returns
\* null and changes nothing; the second of two toggles in a row restores
\* the state the record had before the first.
C12_ToggleFlips ==
  [][ (Ran /\ last'.op = "toggleDeviceState")
      => IF MapHas(devices, last'.id)
         THEN /\ MapHas(devices', last'.id)
              /\ UpdatedTo.state = (IF UpdatedFrom.state = "on" THEN "off" ELSE "on")
              /\ DOMAIN UpdatedTo = DOMAIN UpdatedFrom
              /\ \A k \in DOMAIN UpdatedFrom \ {"state", "lastSeen"} :
                   UpdatedTo[k] = UpdatedFrom[k]
              /\ Others(devices', last'.id) = Others(devices, last'.id)
              /\ last'.result = <<UpdatedTo>>
              /\ (last'.again /\ last.op = "toggleDeviceState")
                   => UpdatedTo.state = last.priorState
         ELSE /\ last'.result = << >>
              /\ devices' = devices ]_vars

\* C12 witness: esp32-001 was toggled twice in a row and is off again.
C12_Witness ==
  /\ last.op = "toggleDeviceState"
  /\ last.again
  /\ last.id = "esp32-001"
  /\ last.priorState = "on"
  /\ last.result # << >>
  /\ last.result[1].state = "off"

\* C13: a publishCommand that runs while the bus is not connected returns
\* false and hands nothing to the bus, then or later: the messages in
\* flight are what they were.
C13_NotConnectedNothingSent ==
  [][ (Ran /\ last'.op = "publishCommand" /\ ~manager.isConnected)
      => /\ last'.returned = FALSE
         /\ toDevice' = toDevice
         /\ toServer' = toServer ]_vars

\* C13 witness: publishCommand returned false while the server's client
\* was not connected and the simulator was online and subscribed.
C13_Witness ==
  /\ last.op = "publishCommand"
  /\ last.method = "set_state"
  /\ ~last.returned
  /\ manager.client
  /\ ~manager.isConnected
  /\ sim.online

\* C14: publishCommand leaves the registry as it was, and the state of a
\* record changes in no step but the handling of a state message for it.
C14_CommandLeavesRegistry ==
  [][ /\ (Ran /\ last'.op = "publishCommand") => devices' = devices
      /\ \A k \in MapKeys(devices) :
           (Ran /\ PriorState(devices', k) # PriorState(devices, k))
           => /\ last'.op = "handleMessage"
              /\ last'.lastPart = "state"
              /\ last'.deviceId = k ]_vars

\* C14 witness: a set_state command for a device that has a record was
\* published and is on its way, the record still in its former state.
C14_Witness ==
  /\ last.op = "publishCommand"
  /\ last.returned
  /\ last.method = "set_state"
  /\ last.data = JObj([state |-> JStr("on")])
  /\ MapHas(devices, last.id)
  /\ MapGet(devices, last.id).state = "off"
  /\ toDevice # << >>

\* l is a set_state command that asks for on or off
AsksState(l) ==
  LET topicParts == Split(l.topic)
  IN /\ topicParts[Len(topicParts)] = "set_state"
     /\ HasString(l, "state")
     /\ PayloadString(l, "state") \in {"on", "off"}

\* C15: when the simulator, online, handles a published set_state command
\* that asks for s while the server is connected, it publishes a state
\* message carrying s; and when the server handles that message, the
\* record of the device has state s.
C15_CommandReachesRegistry ==
  [][ /\ (Ran /\ last'.op = "simCommand" /\ sim.online /\ manager.isConnected
          /\ AsksState(last'))
         => /\ sim'.state = JStr(PayloadString(last', "state"))
            /\ Len(toServer') = Len(toServer) + 1
            /\ LET m == toServer'[Len(toServer')]
               IN /\ m.topic = SimTopic("state")
                  /\ m.message.value.o["state"] = sim'.state
      /\ (Ran /\ last'.op = "handleMessage" /\ last'.cause = "command"
          /\ last'.topic = SimTopic("state")
          /\ HasString(last', "state")
          /\ PayloadString(last', "state") \in {"on", "off"}
          /\ MapHas(devices, SimulatedId))
         => /\ MapHas(devices', SimulatedId)
            /\ MapGet(devices', SimulatedId).state = PayloadString(last', "state")
    ]_vars

\* a message the registry is to accept: an object payload of a known kind
\* for a device that has a record
Accepted(l, devs) ==
  /\ Delivered(l, {"discovery", "status", "state"})
  /\ IsObject(l)
  /\ MapHas(devs, l.deviceId)

\* C16: an accepted inbound message, a successful updateDevice and a
\* successful toggleDeviceState each set lastSeen of the target record to
\* the current time, and no operation lowers the lastSeen of a record.
C16_LastSeenRefreshed ==
  [][ Ran =>
        /\ Accepted(last', devices)
             => /\ MapHas(devices', last'.deviceId)
                /\ MapGet(devices', last'.deviceId).lastSeen = now'
        /\ (last'.op \in {"updateDevice", "toggleDeviceState"} /\ last'.result # << >>)
             => UpdatedTo.lastSeen = now'
        /\ \A k \in MapKeys(devices) \cap MapKeys(devices') :
             MapGet(devices', k).lastSeen >= MapGet(devices, k).lastSeen ]_vars

C18_RecordsStay ==
  [][ \A k \in MapKeys(devices) :
        (Ran /\ ~(last'.op = "removeDevice" /\ last'.id = k))
        => MapHas(devices', k) ]_vars

\* C18 witness: with three records in the registry, one of them went
\* offline by updateDevice and is still there.
C18_Witness ==
  /\ Merged(last)
  /\ "status" \in DOMAIN last.update
  /\ last.update.status = "offline"
  /\ MapHas(devices, last.id)
  /\ Len(devices) = 3

\* l is the handling of a message on a legacy topic {ns}/{id}/{kind}
Legacy(l) ==
  /\ l.op = "handleMessage"
  /\ Len(Split(l.topic)) = 3
  /\ Split(l.topic)[1] = "breeze"

\* the topic {ns}/devices/{id}/{kind} of a legacy topic
CurrentForm(topic) ==
  Join(<<Split(topic)[1], "devices", Split(topic)[2], Split(topic)[3]>>)

\* C19: handling a message on the legacy topic {ns}/{id}/{kind} leaves the
\* registry as handling the same payload on {ns}/devices/{id}/{kind} leaves
\* it, and, the id not being the word "devices", comes to the same call on
\* the store: same device id, kind, data, method and outcome.
C19_LegacySameAsCurrent ==
  [][ (Ran /\ Legacy(last'))
      => LET c == handleMessage(CurrentForm(last'.topic), last'.message,
                                devices, now)
         IN /\ devices' = c.devices
            /\ Split(last'.topic)[2] # "devices"
               => /\ last'.deviceId = c.deviceId
                  /\ last'.lastPart = c.lastPart
                  /\ last'.data = c.data
                  /\ last'.method = c.method
                  /\ last'.outcome = c.outcome ]_vars

\* C19 witness: a state message for esp32-001 on the legacy topic got as
\* far as the call on the store.
C19_Witness ==
  /\ Legacy(last)
  /\ last.deviceId = "esp32-001"
  /\ last.lastPart = "state"
  /\ last.method = "updateDeviceState"
  /\ HasString(last, "state")

\* the discovery and the status payload of the scenario
LampDiscovery ==
  JsonDoc(JObj([id |-> JStr("esp32-001"), name |-> JStr("Lamp"),
                type |-> JStr("ESP32"), state |-> JStr("off")]))
LampStatus ==
  JsonDoc(JObj([online |-> JBool(TRUE), wifi_strength |-> JNum(-60),
                uptime |-> JNum(120)]))

\* C20: from the registry the constructor leaves, handling the discovery
\* {id: esp32-001, name: Lamp, type: ESP32, state: off} leaves one record,
\* with status online and state off; and handling the status {online: true,
\* wifi_strength: -60, uptime: 120} for esp32-001 leaves its record with
\* wifiStrength -60, uptime 120 and the name it had.
C20_DiscoveryThenStatus ==
  [][ /\ (Ran /\ last'.op = "handleMessage" /\ devices = Constructed
          /\ last'.topic = Join(<<"breeze", "devices", "esp32-001", "discovery">>)
          /\ last'.message = LampDiscovery)
         => /\ Len(devices') = 1
            /\ MapHas(devices', "esp32-001")
            /\ MapGet(devices', "esp32-001").status = "online"
            /\ MapGet(devices', "esp32-001").state = "off"
            /\ MapGet(devices', "esp32-001").name = "Lamp"
      /\ (Ran /\ last'.op = "handleMessage" /\ MapHas(devices, "esp32-001")
          /\ last'.topic = Join(<<"breeze", "devices", "esp32-001", "status">>)
          /\ last'.message = LampStatus)
         => /\ MapHas(devices', "esp32-001")
            /\ LET record == MapGet(devices', "esp32-001")
               IN /\ "wifiStrength" \in DOMAIN record
                  /\ record.wifiStrength = -60
                  /\ "uptime" \in DOMAIN record
                  /\ record.uptime = 120
                  /\ record.name = MapGet(devices, "esp32-001").name ]_vars

\* C21: a message on the topic breeze/unknownroom/status is dropped with
\* no device id taken from the topic, and leaves the registry as it was.
C21_UnknownRoomDropped ==
  [][ (Ran /\ last'.op = "handleMessage"
       /\ last'.topic = Join(<<"breeze", "unknownroom", "status">>))
      => /\ last'.outcome = "dropped"
         /\ last'.deviceId = ""
         /\ devices' = devices ]_vars

\* the ids of a list of records, in its order
Ids(list) == [i \in 1..Len(list) |-> list[i].id]

\* C22: the list getAllDevices returned shows its caller the same records
\* in the same order after every later addDevice, updateDevice,
\* toggleDeviceState and removeDevice; and an updateDevice or toggle that
\* finds its record leaves the ids of a later list in the order they had.
C22_ListIsStableCopy ==
  [][ /\ (Ran /\ listed.taken /\ last'.op # "getAllDevices")
         => Seen(listed', devices') = Seen(listed, devices)
      /\ (Ran /\ last'.op \in {"updateDevice", "toggleDeviceState"}
          /\ last'.result # << >>)
         => Ids(getAllDevices(devices').list) = Ids(getAllDevices(devices).list)
    ]_vars

\* C22 witness: a list of three records was handed out, and the first of
\* them has since been updated in the registry while the list shows it as
\* it was.
C22_Witness ==
  /\ listed.taken
  /\ Len(listed.list) = 3
  /\ Merged(last)
  /\ last.id = "esp32-001"
  /\ Len(devices) = 3
  /\ Seen(listed, devices)[1] # devices[1].value
  /\ Ids(Seen(listed, devices)) = Ids(getAllDevices(devices).list)

\* what a handler did on the bus, by kind, in its order
Kinds(did) == [i \in 1..Len(did) |-> did[i].kind]

\* C23: a step that takes the emulated device online subscribes to the
\* command topic, then publishes the retained discovery message, then
\* publishes the initial status message.
C23_OnlineSubscribesFirst ==
  [][ (Ran /\ ~emulator.online /\ emulator'.online)
      => /\ Kinds(last'.did) = <<"subscribe", "discovery", "status">>
         /\ last'.did[2].retain ]_vars

\* C24: when the listener of an online emulated device reads a command
\* that asks for the state on or off, the device takes that state and
\* publishes a state message carrying it, whatever state it had.
C24_CommandAppliedAndAnswered ==
  [][ (Ran /\ last'.op = "command" /\ emulator.online
       /\ HasString(last', "state")
       /\ PayloadString(last', "state") \in {"on", "off"})
      => /\ emulator'.heard = PayloadString(last', "state")
         /\ last'.did = send_state(PayloadString(last', "state")) ]_vars

\* C25: the state of the simulated device changes in no step but the
\* handling of a command it received.
C25_OnlyCommandsChangeState ==
  [][ (sim'.state # sim.state) => last'.op = "simCommand" ]_vars

\* l is the handling of a message of the given kind with an object payload
\* for the device esp32-001
ForLamp(l, kind) ==
  /\ Delivered(l, {kind})
  /\ l.deviceId = "esp32-001"
  /\ IsObject(l)

\* C26: handling a status message for a device that has a record leaves
\* the record's status online when the payload's online is true, offline
\* when it is false, and as it was when the payload has no online field.
C26_StatusFollowsOnline ==
  [][ (Ran /\ ForLamp(last', "status") /\ MapHas(devices, "esp32-001"))
      => LET online == GetProp(last'.message.value, "online").value
             before == MapGet(devices, "esp32-001").status
         IN /\ MapHas(devices', "esp32-001")
            /\ MapGet(devices', "esp32-001").status =
                 (IF online = JBool(TRUE) THEN "online"
                  ELSE IF online = JBool(FALSE) THEN "offline"
                  ELSE before) ]_vars

\* the value the record has for a field, << >> when it has none
FieldOf(record, field) ==
  IF field \in DOMAIN record THEN <<record[field]>> ELSE << >>

\* C27: handling a status message for a device that has a record sets
\* wifiStrength and uptime to the payload's wifi_strength and uptime where
\* these are numbers, and leaves the field as it was where the payload's
\* value is not a number, the other field being set all the same.
C27_OnlyNumbersStored ==
  [][ (Ran /\ ForLamp(last', "status") /\ MapHas(devices, "esp32-001"))
      => /\ MapHas(devices', "esp32-001")
         /\ \A pair \in {<<"wifiStrength", "wifi_strength">>, <<"uptime", "uptime">>} :
              LET given == GetProp(last'.message.value, pair[2]).value
              IN FieldOf(MapGet(devices', "esp32-001"), pair[1]) =
                   (IF given.t = "number" THEN <<given.n>>
                    ELSE FieldOf(MapGet(devices, "esp32-001"), pair[1])) ]_vars

\* C28: handling a discovery message for a device that has a record leaves
\* the record with status online, with the name, type and state the payload
\* gives, and with every other field but lastSeen as it was.
C28_DiscoveryMerges ==
  [][ (Ran /\ ForLamp(last', "discovery") /\ MapHas(devices, "esp32-001")
       /\ HasString(last', "id") /\ PayloadString(last', "id") = "esp32-001")
      => /\ MapHas(devices', "esp32-001")
         /\ LET before == MapGet(devices, "esp32-001")
                after == MapGet(devices', "esp32-001")
            IN /\ after.status = "online"
               /\ \A k \in {"name", "type", "state"} :
                    HasString(last', k) => after[k] = PayloadString(last', k)
               /\ \A k \in DOMAIN before \ {"status", "name", "type", "state",
                                              "lastSeen"} :
                    FieldOf(after, k) = FieldOf(before, k) ]_vars

\* the payload of l, decoded, carries the field: it has a value for it
\* that counts as one (not undefined, null, empty, 0 or false)
Carries(l, key) ==
  /\ ~GetProp(ParseMessage(l.message), key).thrown
  /\ Truthy(GetProp(ParseMessage(l.message), key).value)

\* l is the handling of a message whose kind the switch does not name
Generic(l) ==
  /\ l.op = "handleMessage"
  /\ l.deviceId # ""
  /\ l.lastPart \notin {"discovery", "status", "state"}

\* what handling the payload of l on the topic of the given kind for the
\* same device comes to
AsKind(l, kind, devs, t) ==
  handleMessage(Join(<<"breeze", "devices", l.deviceId, kind>>), l.message,
                devs, t)

C30_LastWriteWins ==
  [][ (Ran /\ Merged(last'))
      => /\ DOMAIN UpdatedTo = DOMAIN UpdatedFrom \cup DOMAIN last'.update
         /\ \A k \in DOMAIN UpdatedTo :
              UpdatedTo[k] = (IF k \in DOMAIN last'.update
                              THEN last'.update[k] ELSE UpdatedFrom[k]) ]_vars

\* C30 (amended): the same for every field but lastSeen, which is the time
\* of the update whatever lastSeen the update carries.
C30_LastWriteWinsButLastSeen ==
  [][ (Ran /\ Merged(last'))
      => /\ DOMAIN UpdatedTo
              = DOMAIN UpdatedFrom \cup DOMAIN last'.update \cup {"lastSeen"}
         /\ \A k \in DOMAIN UpdatedTo \ {"lastSeen"} :
              UpdatedTo[k] = (IF k \in DOMAIN last'.update
                              THEN last'.update[k] ELSE UpdatedFrom[k])
         /\ UpdatedTo.lastSeen = now' ]_vars

\* C30 witness: a record given an uptime by one update and taken offline
\* by a later one took, later still, an update carrying state off and an
\* older lastSeen: its state is off, its status and uptime are those of the
\* latest updates that carried them, its lastSeen is the time of the update.
C30_Witness ==
  /\ Merged(last)
  /\ "lastSeen" \in DOMAIN last.update
  /\ last.update.lastSeen < now
  /\ last.result[1].state = "off"
  /\ last.result[1].status = "offline"
  /\ "uptime" \in DOMAIN last.result[1]
  /\ last.result[1].uptime = 120
  /\ last.result[1].lastSeen = now

-----------------------------------------------------------------------------
(* The server on the bus with clients publishing on the topics the handler *)
(* parses                                                                  *)

\* the subscriptions of subscribeToTopics stand
Subscribed(mgr) == mgr.client /\ mgr.isConnected

\* a client publishes a message; the broker forwards it to the subscribers
\* whose filters match its topic
ClientPublish ==
  \E topic \in StepTopics, message \in StepMessages :
    /\ toServer' = toServer
                   \o ForServer(<<BusMessage(topic, message, FALSE, "client")>>,
                                manager)
    /\ last' = [NoLast EXCEPT !.op = "publish", !.topic = topic,
                  !.message = message]
    /\ UNCHANGED <<devices, now, manager, sim, toDevice, sideVars>>
    /\ Room

NextDelivery ==
  \/ ServerConnect
  \/ ServerOnConnect
  \/ ServerOnError
  \/ ServerOnClose
  \/ ServerDisconnect
  \/ ClientPublish
  \/ ServerHandleMessage

SpecDelivery == Init /\ [][NextDelivery]_vars

\* the topic has the form breeze/devices/{id}/{kind} or breeze/{id}/{kind}
\* with an id and a kind handleMessage takes
Parsed(topic) ==
  /\ Split(topic)[1] = "breeze"
  /\ Len(Split(topic)) \in {3, 4}
  /\ Len(Split(topic)) = 4 => Split(topic)[2] = "devices"
  /\ ExtractDeviceId(Split(topic)) # ""

\* C31: a message published, while the server's subscriptions stand, on a
\* topic of either form the handler parses, breeze/devices/{id}/{kind} or
\* breeze/{id}/{kind}, is put on its way to handleMessage.
C31_BothFormsDelivered ==
  [][ (last'.op = "publish" /\ Subscribed(manager) /\ Parsed(last'.topic))
      => /\ toServer' # << >>
         /\ toServer'[Len(toServer')].topic = last'.topic
         /\ toServer'[Len(toServer')].message = last'.message
         /\ toServer'[Len(toServer')].cause = "client" ]_vars

\* the state a message of a device reports, undefined if it reports none
Reported(m) ==
  IF GetProp(ParseMessage(m.message), "state").thrown THEN JUndef
  ELSE GetProp(ParseMessage(m.message), "state").value

\* C32: the state an emulated device holds is on or off, and so is the
\* state each of its state and discovery messages on the way to the server
\* reports, whatever commands it received.
C32_StateOnOrOff ==
  /\ sim.state \in {JStr("on"), JStr("off")}
  /\ emulator.state \in {"on", "off"}
  /\ \A i \in 1..Len(toServer) :
       toServer[i].topic \in {SimTopic("state"), SimTopic("discovery")}
       => Reported(toServer[i]) \in {JStr("on"), JStr("off")}

\* C33: while an emulated device is not online, its periodic status, its
\* toggle and its handling of a command publish nothing: no step of the
\* simulator's timers, command handler or random change puts a message on
\* the way to the server, and no periodic update, toggle key or listener
\* line of the shell emulator publishes.
C33_PublishesOnlyOnline ==
  [][ /\ (~sim.online /\ last'.op \in {"simStatus", "simCommand", "simRandom"})
         => toServer' = toServer
      /\ (~emulator.online /\ last'.op \in {"update", "toggle", "command"})
         => last'.did = << >> ]_vars

\* C33 witness: the simulator went offline with a status timer running and
\* the server subscribed; the timer fired and nothing is on the way to the
\* server.
C33_Witness ==
  /\ ~sim.online
  /\ sim.timers > 0
  /\ Subscribed(manager)
  /\ last.op = "simStatus"
  /\ toServer = << >>

\* C34: at most one periodic status timer of the simulated device is
\* active, however often its connection was closed and made again.
C34_OneStatusTimer == sim.timers <= 1

====
